---------------------------- MODULE Spec2Model ----------------------------
(***************************************************************************)
(* A model of the trading-insight backend (src/trading bot/trading_bot.py):*)
(* the get_stock_info / search_news / get_portfolio_analytics helpers and  *)
(* the /trade-insights and /portfolio-analytics handlers.  One request is  *)
(* served at a time; every upstream collaborator (yfinance, ta, DDGS, the  *)
(* Together API) is an environment whose outcome is chosen when the call   *)
(* returns.  Floats are modelled as exact rationals <<num, den>>.          *)
(***************************************************************************)
EXTENDS Integers, Sequences, FiniteSets, TLC

VARIABLES
    endpoint,   \* which handler (or helper, called on its own) is running
    pc,         \* the handler's position
    body,       \* the request's JSON body as received
    tickers,    \* trade_insights: the local `tickers`
    holdings,   \* get_portfolio_analytics: the items of `holdings`, in dict order
    idx,        \* number of get_stock_info calls of the current loop that returned
    stats,      \* trade_insights: the local `stats` dict (symbol -> StockInfo)
    news,       \* trade_insights: the local `news`
    econ,       \* trade_insights: the local `econ_calendar`
    acc,        \* get_portfolio_analytics: total_value, returns, vols, prices
    inflight,   \* the upstream calls that were started and have not returned
    calls,      \* per request: how many calls of each kind were started
    env,        \* per request: what each collaborator did, in call order
    response    \* the handler's response, NoResponse until it returns

vars == <<endpoint, pc, body, tickers, holdings, idx, stats, news, econ, acc,
          inflight, calls, env, response>>

\* An absent Optional value.  Optional values are tuples: <<>> for None,
\* <<num, den>> for a float, <<"val">> for a value the code only passes through.
None == <<>>

\* ------------------------------------------------------------------------
\* Bounds of the model.
MaxTickers == 2
MaxBars == 27

\* ------------------------------------------------------------------------
\* Exact rational arithmetic standing for Python floats.
Abs(n) == IF n < 0 THEN -n ELSE n

RECURSIVE Gcd(_, _)
Gcd(a, b) == IF b = 0 THEN a ELSE Gcd(b, a % b)

Rat(n, d) ==
    LET g == Gcd(Abs(n), Abs(d))
        s == IF d < 0 THEN -1 ELSE 1
    IN  <<(s * n) \div g, (s * d) \div g>>

Zero == <<0, 1>>
RAdd(x, y) == Rat(x[1] * y[2] + y[1] * x[2], x[2] * y[2])
RSub(x, y) == Rat(x[1] * y[2] - y[1] * x[2], x[2] * y[2])
RMul(x, y) == Rat(x[1] * y[1], x[2] * y[2])
RDiv(x, y) == Rat(x[1] * y[2], x[2] * y[1])
RGt(x, y)  == x[1] * y[2] > y[1] * x[2]
RLt(x, y)  == RGt(y, x)
RGe(x, y)  == ~RGt(y, x)

RECURSIVE SumSeq(_)
SumSeq(s) == IF s = <<>> THEN Zero ELSE RAdd(s[1], SumSeq(Tail(s)))

RECURSIVE MinSeq(_)
MinSeq(s) ==
    IF Len(s) = 1 THEN s[1]
    ELSE LET m == MinSeq(Tail(s)) IN IF RLt(m, s[1]) THEN m ELSE s[1]

\* Python truthiness of an Optional[float]: None and 0.0 are falsy.
Truthy(x) == x # None /\ x # Zero

\* float("nan"): what pandas' std() gives for fewer than two observations.  It
\* is truthy, and every comparison with it is False.
NaN == <<"nan">>
FloatGt(x, y) == x # NaN /\ y # NaN /\ RGt(x, y)
FloatGe(x, y) == x # NaN /\ y # NaN /\ RGe(x, y)

\* ------------------------------------------------------------------------
\* Program constants.
RsiWindow  == 14
BollWindow == 20
MacdWindow == 26
AlertThreshold == Rat(5, 100)
MediumThreshold == Rat(5, 100)
HighThreshold == Rat(1, 10)

\* ------------------------------------------------------------------------
\* StockInfo (pydantic model, every field defaulting to None).
StockInfoFields ==
    {"name", "symbol", "price", "previous_close", "currency", "price_week_ago",
     "price_month_ago", "volume", "avg_volume", "volatility", "rsi", "macd",
     "boll_upper", "boll_lower", "mfi", "obv", "atr", "alert"}

EmptyStockInfo == [f \in StockInfoFields |-> None]

\* StockInfo(symbol=symbol)
SymbolOnly(symbol) == [EmptyStockInfo EXCEPT !["symbol"] = symbol]

\* ------------------------------------------------------------------------
\* The market-data source (yfinance + ta) as an environment.  One call's
\* behaviour is a record: `stage` is where an exception is raised ("ok": nowhere),
\* `hist` what ticker.history(period="1mo") returned and `info` what ticker.info
\* returned (placeholders for a fetch that raised or was never reached).  A history is [n: len(close), close0: close[0],
\* sigma: close.pct_change().std() * 252 ** 0.5]; values the code only passes
\* through (indicator values, volumes, names) are the opaque token "val".
Val == <<"val">>

Hist(n, close0, sigma) == [n |-> n, close0 |-> close0, sigma |-> sigma]

Quote(price, rest) ==
    [shortName |-> rest, regularMarketPrice |-> price,
     regularMarketPreviousClose |-> rest, currency |-> rest]

Up(stage, hist, info) == [stage |-> stage, hist |-> hist, info |-> info]

MonthBars == 22

\* What the upstream may do in a call made by the portfolio flow: fail at any
\* of the three stages, or return one of these histories and quotes.
PortfolioHists ==
    {Hist(0, None, None), Hist(1, Rat(100, 1), None), Hist(MonthBars, Zero, Rat(5, 100))}
    \cup {Hist(MonthBars, Rat(100, 1), s) :
            s \in {Zero, Rat(5, 100), Rat(1, 10), Rat(15, 100)}}

PortfolioQuotes ==
    {Quote(None, None), Quote(Zero, Val), Quote(Rat(90, 1), Val), Quote(Rat(110, 1), Val)}

Failures ==
    {Up("history", Hist(0, None, None), Quote(None, None)),
     Up("info", Hist(MonthBars, Rat(100, 1), Rat(1, 10)), Quote(None, None)),
     Up("indicators", Hist(MonthBars, Rat(100, 1), Rat(1, 10)), Quote(Rat(110, 1), Val))}

PortfolioUpstream ==
    Failures \cup {Up("ok", h, q) : h \in PortfolioHists, q \in PortfolioQuotes}

\* What it may do in a call made by trade_insights, which does no arithmetic
\* on the result.
InsightsUpstream ==
    Failures \cup
    {Up("ok", Hist(MonthBars, Rat(100, 1), Rat(1, 10)), Quote(Rat(110, 1), Val)),
     Up("ok", Hist(1, Rat(100, 1), None), Quote(None, None))}

\* What it may do when get_stock_info is called on its own: a history of any
\* length up to MaxBars.  The volatility pandas computes from n closes is NaN
\* for n = 2 (pct_change leaves one observation) and a float beyond.
Sigmas == {Zero, Rat(4, 100), Rat(5, 100), Rat(6, 100), Rat(1, 10)}

StockHists ==
    {Hist(0, None, None), Hist(1, Rat(100, 1), None), Hist(2, Rat(100, 1), NaN)}
    \cup {Hist(n, Rat(100, 1), s) : n \in 3 .. MaxBars, s \in Sigmas}

StockQuotes == {Quote(None, None), Quote(Rat(110, 1), Val)}

StockUpstream ==
    {Up("history", Hist(0, None, None), Quote(None, None))}
    \cup {Up("info", h, Quote(None, None)) : h \in StockHists}
    \cup {Up(stage, h, q) : stage \in {"indicators", "ok"}, h \in StockHists, q \in StockQuotes}

UpstreamFor(ep) ==
    IF ep = "portfolio_analytics" THEN PortfolioUpstream
    ELSE IF ep = "get_stock_info" THEN StockUpstream
    ELSE InsightsUpstream

\* ------------------------------------------------------------------------
\* get_stock_info
\* A variant that needs one bar less than the window.
WindowedOneShort(n, window) == IF n >= window - 1 THEN Val ELSE None

Windowed(n, window) == IF n >= window THEN Val ELSE None

Volatility(hist) == IF hist.n > 1 THEN hist.sigma ELSE None

AlertText == <<"Unusual volatility detected!">>

\* A variant whose threshold is inclusive.
AlertInclusive(volatility) ==
    IF Truthy(volatility) /\ FloatGe(volatility, AlertThreshold) THEN AlertText ELSE None

Alert(volatility) ==
    IF Truthy(volatility) /\ FloatGt(volatility, AlertThreshold) THEN AlertText ELSE None

ComputeStockInfo(symbol, hist, info) ==
    [name            |-> info.shortName,
     symbol          |-> symbol,
     price           |-> info.regularMarketPrice,
     previous_close  |-> info.regularMarketPreviousClose,
     currency        |-> info.currency,
     price_week_ago  |-> IF hist.n > 5 THEN Val ELSE None,
     price_month_ago |-> IF hist.n > 0 THEN hist.close0 ELSE None,
     volume          |-> IF hist.n > 0 THEN Val ELSE None,
     avg_volume      |-> IF hist.n > 0 THEN Val ELSE None,
     volatility      |-> Volatility(hist),
     rsi             |-> Windowed(hist.n, RsiWindow),
     macd            |-> Windowed(hist.n, MacdWindow),
     boll_upper      |-> Windowed(hist.n, BollWindow),
     boll_lower      |-> Windowed(hist.n, BollWindow),
     mfi             |-> Windowed(hist.n, RsiWindow),
     obv             |-> Windowed(hist.n, 2),
     atr             |-> Windowed(hist.n, RsiWindow),
     alert           |-> Alert(Volatility(hist))]

\* A variant of the except branch that keeps the quote fetched before the failure.
StockInfoOnErrorKeepsQuote(symbol, up) ==
    [SymbolOnly(symbol) EXCEPT !["price"] = up.info.regularMarketPrice]

\* The except branch: any exception raised inside the try block.
StockInfoOnError(symbol, up) == SymbolOnly(symbol)

GetStockInfo(symbol, up) ==
    IF up.stage = "ok" THEN ComputeStockInfo(symbol, up.hist, up.info)
    ELSE StockInfoOnError(symbol, up)

\* ------------------------------------------------------------------------
\* search_news
MaxResults == 5
Sentiments == <<"positive", "negative", "neutral">>

NewsItem(i) ==
    [title |-> Val, link |-> Val, snippet |-> Val, date |-> "today",
     sentiment |-> Sentiments[((i - 1) % 3) + 1]]

\* The search collaborator either raises or returns n raw results.
NewsOutcomes == {[ok |-> FALSE, n |-> 0]} \cup {[ok |-> TRUE, n |-> n] : n \in 0 .. MaxResults}

\* A variant that reports the failure as a news item.
NewsOnErrorPlaceholder == <<NewsItem(1)>>

NewsOnError == <<>>

SearchNews(out) ==
    IF ~out.ok THEN NewsOnError ELSE [i \in 1 .. out.n |-> NewsItem(i)]

\* get_economic_calendar
EconomicCalendar ==
    <<[event |-> "Fed Interest Rate Decision", date |-> 2, impact |-> "high"],
      [event |-> "US Jobs Report", date |-> 5, impact |-> "medium"],
      [event |-> "CPI Inflation Release", date |-> 10, impact |-> "high"]>>

\* ------------------------------------------------------------------------
\* get_portfolio_analytics
EmptyAcc == [total_value |-> Zero, returns |-> <<>>, vols |-> <<>>, prices |-> <<>>]

Included(info) == Truthy(info.price) /\ Truthy(info.price_month_ago)

\* A variant of the loop body that averages over every holding, counting one
\* that is not included as a zero return and a zero volatility.
PortfolioStepCountsAll(a, info, qty) ==
    IF Included(info)
    THEN [total_value |-> RAdd(a.total_value, RMul(info.price, qty)),
          returns |-> Append(a.returns,
                             RDiv(RSub(info.price, info.price_month_ago),
                                  info.price_month_ago)),
          vols    |-> Append(a.vols,
                             IF Truthy(info.volatility) THEN info.volatility ELSE Zero),
          prices  |-> Append(a.prices, info.price)]
    ELSE [a EXCEPT !.returns = Append(@, Zero), !.vols = Append(@, Zero)]

\* The body of the for loop, for one (symbol, qty) item whose lookup gave info.
PortfolioStep(a, info, qty) ==
    IF Included(info)
    THEN [total_value |-> RAdd(a.total_value, RMul(info.price, qty)),
          returns |-> Append(a.returns,
                             RDiv(RSub(info.price, info.price_month_ago),
                                  info.price_month_ago)),
          vols    |-> Append(a.vols,
                             IF Truthy(info.volatility) THEN info.volatility ELSE Zero),
          prices  |-> Append(a.prices, info.price)]
    ELSE a

Mean(s) == IF s # <<>> THEN RDiv(SumSeq(s), Rat(Len(s), 1)) ELSE Zero

\* A variant that divides by 1 when the volatility is 0.
SharpeDefaultDivisor(avg_return, avg_vol) ==
    RDiv(avg_return, IF avg_vol # Zero THEN avg_vol ELSE Rat(1, 1))

Sharpe(avg_return, avg_vol) ==
    IF avg_vol # Zero THEN RDiv(avg_return, avg_vol) ELSE Zero

\* A variant whose thresholds are inclusive.
RiskLevelInclusive(avg_vol) ==
    IF RGe(avg_vol, HighThreshold) THEN "High"
    ELSE IF RGe(avg_vol, MediumThreshold) THEN "Medium"
    ELSE "Low"

RiskLevel(avg_vol) ==
    IF RGt(avg_vol, HighThreshold) THEN "High"
    ELSE IF RGt(avg_vol, MediumThreshold) THEN "Medium"
    ELSE "Low"

\* The code after the loop.
Finalize(a) ==
    LET avg_return == Mean(a.returns)
        avg_vol    == Mean(a.vols)
    IN  [total_value |-> a.total_value,
         returns     |-> avg_return,
         volatility  |-> avg_vol,
         sharpe      |-> Sharpe(avg_return, avg_vol),
         drawdown    |-> IF a.returns # <<>> THEN MinSeq(a.returns) ELSE Zero,
         risk_level  |-> RiskLevel(avg_vol)]

\* get_portfolio_analytics as a function of the items and of the StockInfo that
\* get_stock_info gave for each.
RECURSIVE RunLoop(_, _, _)
RunLoop(a, items, infos) ==
    IF items = <<>> THEN a
    ELSE RunLoop(PortfolioStep(a, infos[1], items[1].qty), Tail(items), Tail(infos))

PortfolioAnalyticsOf(items, infos) == Finalize(RunLoop(EmptyAcc, items, infos))

\* ------------------------------------------------------------------------
\* ask_together: the Together API either answers or the call raises (transport
\* error or timeout, an HTTP error status, a body without choices).
AskOutcomes == {"ok", "transport", "http_401", "http_429", "bad_body"}

\* ------------------------------------------------------------------------
\* Requests.
ReqSymbols == {"AAPL", "MSFT"}
DefaultTickers == <<"BTC-USD", "^IXIC">>
DefaultHoldings == <<[symbol |-> "AAPL", qty |-> Rat(10, 1)], [symbol |-> "MSFT", qty |-> Rat(5, 1)]>>
Qtys == {Rat(-1, 1), Zero, Rat(2, 1)}

TickerLists == UNION {[1 .. n -> ReqSymbols] : n \in 0 .. MaxTickers}

HoldingLists ==
    {h \in UNION {[1 .. n -> [symbol : ReqSymbols, qty : Qtys]] : n \in 0 .. Cardinality(ReqSymbols)} :
        \A i, j \in DOMAIN h : i # j => h[i].symbol # h[j].symbol}

EmptyMap == [k \in {} |-> None]
NoCalls == [stock |-> 0, news |-> 0, calendar |-> 0, synth |-> 0]
NoEnv == [stock |-> <<>>, news |-> <<>>, ask |-> <<>>, gemini |-> <<>>]
NoBody == [given |-> FALSE, tickers |-> <<>>, holdings |-> <<>>]
NoResponse == [status |-> 0]

Init ==
    /\ endpoint = "none"
    /\ pc = "idle"
    /\ body = NoBody
    /\ tickers = <<>>
    /\ holdings = <<>>
    /\ idx = 0
    /\ stats = EmptyMap
    /\ news = <<>>
    /\ econ = <<>>
    /\ acc = EmptyAcc
    /\ inflight = {}
    /\ calls = NoCalls
    /\ env = NoEnv
    /\ response = NoResponse

Fresh ==
    /\ idx' = 0
    /\ stats' = EmptyMap
    /\ news' = <<>>
    /\ econ' = <<>>
    /\ acc' = EmptyAcc
    /\ inflight' = {}
    /\ calls' = NoCalls
    /\ env' = NoEnv
    /\ response' = NoResponse

\* ------------------------------------------------------------------------
\* POST /trade-insights

\* data = await request.json(); tickers = data.get("tickers", [...])
ReceiveTradeInsights ==
    /\ pc \in {"idle", "done"}
    /\ \E given \in BOOLEAN, t \in TickerLists :
        /\ ~given => t = <<>>
        /\ body' = [given |-> given, tickers |-> t, holdings |-> <<>>]
        /\ tickers' = IF given THEN t ELSE DefaultTickers
    /\ endpoint' = "trade_insights"
    /\ holdings' = <<>>
    /\ pc' = "stats"
    /\ Fresh

\* A variant in which a failed lookup discards the entries gathered so far.
StatsPutFailureResets(st, symbol, info) ==
    IF info = SymbolOnly(symbol) THEN [k \in {symbol} |-> info]
    ELSE [k \in (DOMAIN st) \cup {symbol} |-> IF k = symbol THEN info ELSE st[k]]

StatsPutKeepsFirst(st, symbol, info) ==
    IF symbol \in DOMAIN st THEN st
    ELSE [k \in (DOMAIN st) \cup {symbol} |-> IF k = symbol THEN info ELSE st[k]]

\* stats[symbol] = get_stock_info(symbol).dict()
StatsPut(st, symbol, info) ==
    [k \in (DOMAIN st) \cup {symbol} |-> IF k = symbol THEN info ELSE st[k]]

\* The dict comprehension calls get_stock_info for the next ticker ...
StatsCallGetStockInfo ==
    /\ endpoint = "trade_insights"
    /\ pc = "stats"
    /\ idx < Len(tickers)
    /\ inflight' = inflight \cup {<<"stock", idx + 1>>}
    /\ calls' = [calls EXCEPT !.stock = @ + 1]
    /\ pc' = "stats_call"
    /\ UNCHANGED <<endpoint, body, tickers, holdings, idx, stats, news, econ, acc, env, response>>

\* ... which returns (it never raises) before the next one is made.
StatsGetStockInfoReturns ==
    /\ endpoint = "trade_insights"
    /\ pc = "stats_call"
    /\ \E up \in UpstreamFor(endpoint) :
        LET symbol == tickers[idx + 1]
            info   == GetStockInfo(symbol, up)
        IN  /\ stats' = StatsPut(stats, symbol, info)
            /\ env' = [env EXCEPT !.stock =
                          Append(@, [symbol |-> symbol, up |-> up, ret |-> info])]
    /\ inflight' = inflight \ {<<"stock", idx + 1>>}
    /\ idx' = idx + 1
    /\ pc' = "stats"
    /\ UNCHANGED <<endpoint, body, tickers, holdings, news, econ, acc, calls, response>>

\* news = search_news(" ".join(tickers), max_results=5)
CallSearchNews ==
    /\ endpoint = "trade_insights"
    /\ pc = "stats"
    /\ idx = Len(tickers)
    /\ inflight' = inflight \cup {<<"news", 1>>}
    /\ calls' = [calls EXCEPT !.news = @ + 1]
    /\ pc' = "news_call"
    /\ UNCHANGED <<endpoint, body, tickers, holdings, idx, stats, news, econ, acc, env, response>>

SearchNewsReturns ==
    /\ pc = "news_call"
    /\ \E out \in NewsOutcomes :
        /\ news' = SearchNews(out)
        /\ env' = [env EXCEPT !.news = Append(@, out)]
    /\ inflight' = inflight \ {<<"news", 1>>}
    /\ pc' = "calendar"
    /\ UNCHANGED <<endpoint, body, tickers, holdings, idx, stats, econ, acc, calls, response>>

\* econ_calendar = get_economic_calendar(): a local, static list
GetEconomicCalendar ==
    /\ pc = "calendar"
    /\ econ' = EconomicCalendar
    /\ calls' = [calls EXCEPT !.calendar = @ + 1]
    /\ pc' = "ask"
    /\ UNCHANGED <<endpoint, body, tickers, holdings, idx, stats, news, acc, inflight, env, response>>

\* ai_response = await ask_together(messages, client)
CallAskTogether ==
    /\ endpoint = "trade_insights"
    /\ pc = "ask"
    /\ inflight' = inflight \cup {<<"synth", calls.synth + 1>>}
    /\ calls' = [calls EXCEPT !.synth = @ + 1]
    /\ pc' = "ask_call"
    /\ UNCHANGED <<endpoint, body, tickers, holdings, idx, stats, news, econ, acc, env, response>>

\* return TradeInsightsResponse(result=ai_response, stats=stats)
InsightsResponse(text, st) == [status |-> 200, result |-> text, stats |-> st]

\* A variant of the failure response that leaves the stats out.
InsightsErrorResponseNoStats(e, st) ==
    [status |-> 500, result |-> <<"Error: ", e>>, stats |-> EmptyMap]

\* return JSONResponse(status_code=500, content={"result": f"Error: {e}", "stats": stats})
InsightsErrorResponse(e, st) == [status |-> 500, result |-> <<"Error: ", e>>, stats |-> st]

\* A variant that calls ask_together again after a failure.
AfterAskFailureRetry == "ask"

\* Where the handler goes when ask_together raised.
AfterAskFailure == "done"

AskTogetherReturns ==
    /\ endpoint = "trade_insights"
    /\ pc = "ask_call"
    /\ env' = [env EXCEPT !.ask = Append(@, "ok")]
    /\ response' = InsightsResponse(<<"completion">>, stats)
    /\ inflight' = inflight \ {<<"synth", calls.synth>>}
    /\ pc' = "done"
    /\ UNCHANGED <<endpoint, body, tickers, holdings, idx, stats, news, econ, acc, calls>>

AskTogetherRaises ==
    /\ endpoint = "trade_insights"
    /\ pc = "ask_call"
    /\ \E e \in AskOutcomes \ {"ok"} :
        /\ env' = [env EXCEPT !.ask = Append(@, e)]
        /\ response' = IF AfterAskFailure = "done"
                          THEN InsightsErrorResponse(e, stats) ELSE response
    /\ inflight' = inflight \ {<<"synth", calls.synth>>}
    /\ pc' = AfterAskFailure
    /\ UNCHANGED <<endpoint, body, tickers, holdings, idx, stats, news, econ, acc, calls>>

\* ------------------------------------------------------------------------
\* POST /portfolio-analytics

\* data = await request.json(); holdings = data.get("holdings", {...})
ReceivePortfolioAnalytics ==
    /\ pc \in {"idle", "done"}
    /\ \E given \in BOOLEAN, h \in HoldingLists :
        /\ ~given => h = <<>>
        /\ body' = [given |-> given, tickers |-> <<>>, holdings |-> h]
        /\ holdings' = IF given THEN h ELSE DefaultHoldings
    /\ endpoint' = "portfolio_analytics"
    /\ tickers' = <<>>
    /\ pc' = "loop"
    /\ Fresh

\* for symbol, qty in holdings.items(): info = get_stock_info(symbol)
LoopCallGetStockInfo ==
    /\ endpoint = "portfolio_analytics"
    /\ pc = "loop"
    /\ idx < Len(holdings)
    /\ inflight' = inflight \cup {<<"stock", idx + 1>>}
    /\ calls' = [calls EXCEPT !.stock = @ + 1]
    /\ pc' = "loop_call"
    /\ UNCHANGED <<endpoint, body, tickers, holdings, idx, stats, news, econ, acc, env, response>>

LoopGetStockInfoReturns ==
    /\ endpoint = "portfolio_analytics"
    /\ pc = "loop_call"
    /\ \E up \in UpstreamFor(endpoint) :
        LET item == holdings[idx + 1]
            info == GetStockInfo(item.symbol, up)
        IN  /\ acc' = PortfolioStep(acc, info, item.qty)
            /\ env' = [env EXCEPT !.stock =
                          Append(@, [symbol |-> item.symbol, up |-> up, ret |-> info])]
    /\ inflight' = inflight \ {<<"stock", idx + 1>>}
    /\ idx' = idx + 1
    /\ pc' = "loop"
    /\ UNCHANGED <<endpoint, body, tickers, holdings, stats, news, econ, calls, response>>

\* return PortfolioAnalytics(...)
PortfolioReturns ==
    /\ endpoint = "portfolio_analytics"
    /\ pc = "loop"
    /\ idx = Len(holdings)
    /\ response' = [status |-> 200, analytics |-> Finalize(acc)]
    /\ pc' = "done"
    /\ UNCHANGED <<endpoint, body, tickers, holdings, idx, stats, news, econ, acc, inflight, calls, env>>

\* ------------------------------------------------------------------------
\* POST /backtest, POST /compare-strategies, POST /backtest-vs-live: the body is
\* read, the prompt built, and ask_together called once inside try/except.
NarrativeEndpoints == {"backtest", "compare_strategies", "backtest_vs_live"}

Text == <<"text">>
DefaultStrategy == <<"Backtest a simple moving average crossover on BTC-USD for the last 2 years.">>

\* data.get("strategy", default)
ReceiveBacktest ==
    /\ pc \in {"idle", "done"}
    /\ \E given \in BOOLEAN :
        body' = [given |-> given, strategy |-> IF given THEN Text ELSE DefaultStrategy]
    /\ endpoint' = "backtest"
    /\ tickers' = <<>>
    /\ holdings' = <<>>
    /\ pc' = "ask"
    /\ Fresh

\* data.get("strategies", [])
ReceiveCompareStrategies ==
    /\ pc \in {"idle", "done"}
    /\ \E n \in 0 .. 2 :
        body' = [given |-> n > 0, strategies |-> [i \in 1 .. n |-> Text]]
    /\ endpoint' = "compare_strategies"
    /\ tickers' = <<>>
    /\ holdings' = <<>>
    /\ pc' = "ask"
    /\ Fresh

\* data.get("backtest_data"), data.get("live_data"): None when the key is missing
ReceiveBacktestVsLive ==
    /\ pc \in {"idle", "done"}
    /\ \E b \in {None, Text}, l \in {None, Text} :
        body' = [given |-> b # None /\ l # None, backtest_data |-> b, live_data |-> l]
    /\ endpoint' = "backtest_vs_live"
    /\ tickers' = <<>>
    /\ holdings' = <<>>
    /\ pc' = "ask"
    /\ Fresh

NarrativeCallAskTogether ==
    /\ endpoint \in NarrativeEndpoints
    /\ pc = "ask"
    /\ inflight' = inflight \cup {<<"synth", calls.synth + 1>>}
    /\ calls' = [calls EXCEPT !.synth = @ + 1]
    /\ pc' = "ask_call"
    /\ UNCHANGED <<endpoint, body, tickers, holdings, idx, stats, news, econ, acc, env, response>>

\* The return statement of each try block.
NarrativeResponse(ep, b, text) ==
    IF ep = "backtest" THEN [status |-> 200, backtest_result |-> text]
    ELSE IF ep = "compare_strategies" THEN [status |-> 200, comparison |-> text]
    ELSE [status |-> 200, backtest_summary |-> b.backtest_data,
          live_summary |-> b.live_data, discrepancies |-> text]

\* The JSONResponse of each except block.
NarrativeErrorResponse(ep, b, e) ==
    IF ep = "backtest" THEN [status |-> 500, backtest_result |-> <<"Error: ", e>>]
    ELSE IF ep = "compare_strategies" THEN [status |-> 500, comparison |-> <<"Error: ", e>>]
    ELSE [status |-> 500, discrepancies |-> <<"Error: ", e>>]

\* BacktestComparison(backtest_summary: str, live_summary: str, ...) refuses
\* None, and is built inside the try block.
ValidationFails(ep, b) ==
    ep = "backtest_vs_live" /\ (b.backtest_data = None \/ b.live_data = None)

NarrativeAskTogetherReturns ==
    /\ endpoint \in NarrativeEndpoints
    /\ pc = "ask_call"
    /\ env' = [env EXCEPT !.ask = Append(@, "ok")]
    /\ response' = IF ValidationFails(endpoint, body)
                      THEN NarrativeErrorResponse(endpoint, body, "validation")
                      ELSE NarrativeResponse(endpoint, body, <<"completion">>)
    /\ inflight' = inflight \ {<<"synth", calls.synth>>}
    /\ pc' = "done"
    /\ UNCHANGED <<endpoint, body, tickers, holdings, idx, stats, news, econ, acc, calls>>

NarrativeAskTogetherRaises ==
    /\ endpoint \in NarrativeEndpoints
    /\ pc = "ask_call"
    /\ \E e \in AskOutcomes \ {"ok"} :
        /\ env' = [env EXCEPT !.ask = Append(@, e)]
        /\ response' = NarrativeErrorResponse(endpoint, body, e)
    /\ inflight' = inflight \ {<<"synth", calls.synth>>}
    /\ pc' = "done"
    /\ UNCHANGED <<endpoint, body, tickers, holdings, idx, stats, news, econ, acc, calls>>

\* ------------------------------------------------------------------------
\* get_stock_info(symbol), called on its own.
CallGetStockInfo ==
    /\ pc \in {"idle", "done"}
    /\ \E symbol \in ReqSymbols : tickers' = <<symbol>>
    /\ endpoint' = "get_stock_info"
    /\ body' = NoBody
    /\ holdings' = <<>>
    /\ idx' = 0
    /\ stats' = EmptyMap
    /\ news' = <<>>
    /\ econ' = <<>>
    /\ acc' = EmptyAcc
    /\ inflight' = {<<"stock", 1>>}
    /\ calls' = [NoCalls EXCEPT !.stock = 1]
    /\ env' = NoEnv
    /\ response' = NoResponse
    /\ pc' = "stock_call"

GetStockInfoReturns ==
    /\ endpoint = "get_stock_info"
    /\ pc = "stock_call"
    /\ \E up \in UpstreamFor(endpoint) :
        LET info == GetStockInfo(tickers[1], up)
        IN  /\ env' = [env EXCEPT !.stock =
                          Append(@, [symbol |-> tickers[1], up |-> up, ret |-> info])]
            /\ response' = [status |-> 200, info |-> info]
    /\ inflight' = {}
    /\ idx' = 1
    /\ pc' = "done"
    /\ UNCHANGED <<endpoint, body, tickers, holdings, stats, news, econ, acc, calls>>

\* ------------------------------------------------------------------------
\* SaasIdeaGenerator.generate_idea (src/Micro SaaS Idea Generator).  Messages
\* are sequences of characters, so that str.lower() and the `in` tests of the
\* handler are computed as the code computes them.
UpperCase ==
    <<"A","B","C","D","E","F","G","H","I","J","K","L","M","N","O","P","Q","R","S","T","U","V",
      "W","X","Y","Z">>
LowerCase ==
    <<"a","b","c","d","e","f","g","h","i","j","k","l","m","n","o","p","q","r","s","t","u","v",
      "w","x","y","z">>

LowerChar(c) ==
    IF \E i \in DOMAIN UpperCase : UpperCase[i] = c
    THEN LowerCase[CHOOSE i \in DOMAIN UpperCase : UpperCase[i] = c]
    ELSE c

\* str.lower()
Lower(str) == [i \in DOMAIN str |-> LowerChar(str[i])]

\* needle in str
Contains(str, needle) ==
    \E i \in 0 .. (Len(str) - Len(needle)) : SubSeq(str, i + 1, i + Len(needle)) = needle
NeedleApiKey ==
    <<"a","p","i"," ","k","e","y">>
NeedleInvalid ==
    <<"i","n","v","a","l","i","d">>
NeedleExpired ==
    <<"e","x","p","i","r","e","d">>
NeedleQuota ==
    <<"q","u","o","t","a">>
NeedleLimit ==
    <<"l","i","m","i","t">>
NeedleConnect ==
    <<"c","o","n","n","e","c","t">>
NeedleTimeout ==
    <<"t","i","m","e","o","u","t">>
\* The messages of json.JSONDecodeError (json/decoder.py), each followed by its
\* position.
JsonPosition ==
    <<":"," ","l","i","n","e"," ","1"," ","c","o","l","u","m","n"," ","8"," ","(","c","h","a",
      "r"," ","7",")">>
JsonExpectingValue ==
    <<"E","x","p","e","c","t","i","n","g"," ","v","a","l","u","e">>
JsonExpectingPropertyName ==
    <<"E","x","p","e","c","t","i","n","g"," ","p","r","o","p","e","r","t","y"," ","n","a","m",
      "e"," ","e","n","c","l","o","s","e","d"," ","i","n"," ","d","o","u","b","l","e"," ","q",
      "u","o","t","e","s">>
JsonExpectingColon ==
    <<"E","x","p","e","c","t","i","n","g"," ","'",":","'"," ","d","e","l","i","m","i","t","e",
      "r">>
JsonExpectingComma ==
    <<"E","x","p","e","c","t","i","n","g"," ","'",",","'"," ","d","e","l","i","m","i","t","e",
      "r">>
JsonExtraData ==
    <<"E","x","t","r","a"," ","d","a","t","a">>
JsonUnterminatedString ==
    <<"U","n","t","e","r","m","i","n","a","t","e","d"," ","s","t","r","i","n","g"," ","s","t",
      "a","r","t","i","n","g"," ","a","t">>
JsonInvalidControl ==
    <<"I","n","v","a","l","i","d"," ","c","o","n","t","r","o","l"," ","c","h","a","r","a","c",
      "t","e","r"," ","a","t">>
JsonInvalidEscape ==
    <<"I","n","v","a","l","i","d"," ","\\","e","s","c","a","p","e">>
JsonInvalidUnicodeEscape ==
    <<"I","n","v","a","l","i","d"," ","\\","u","X","X","X","X"," ","e","s","c","a","p","e">>
JsonErrorMessages ==
    {m \o JsonPosition : m \in
        {JsonExpectingValue,
         JsonExpectingPropertyName,
         JsonExpectingColon,
         JsonExpectingComma,
         JsonExtraData,
         JsonUnterminatedString,
         JsonInvalidControl,
         JsonInvalidEscape,
         JsonInvalidUnicodeEscape}}
\* Messages of exceptions raised by model.generate_content.
ApiKeyExpired ==
    <<"A","P","I"," ","k","e","y"," ","e","x","p","i","r","e","d","."," ","P","l","e","a","s",
      "e"," ","r","e","n","e","w"," ","t","h","e"," ","A","P","I"," ","k","e","y",".">>
ApiKeyNotValid ==
    <<"A","P","I"," ","k","e","y"," ","n","o","t"," ","v","a","l","i","d","."," ","P","l","e",
      "a","s","e"," ","p","a","s","s"," ","a"," ","v","a","l","i","d"," ","A","P","I"," ","k",
      "e","y",".">>
ApiQuotaExceeded ==
    <<"R","e","s","o","u","r","c","e"," ","h","a","s"," ","b","e","e","n"," ","e","x","h","a",
      "u","s","t","e","d"," ","(","e",".","g","."," ","c","h","e","c","k"," ","q","u","o","t",
      "a",")",".">>
ApiTimeout ==
    <<"T","i","m","e","o","u","t"," ","o","f"," ","6","0","0",".","0","s"," ","e","x","c","e",
      "e","d","e","d">>
ApiInternal ==
    <<"A","n"," ","i","n","t","e","r","n","a","l"," ","e","r","r","o","r"," ","h","a","s"," ",
      "o","c","c","u","r","r","e","d",".">>
ApiErrorMessages ==
    {ApiKeyExpired,
     ApiKeyNotValid,
     ApiQuotaExceeded,
     ApiTimeout,
     ApiInternal}
ParsePrefix ==
    <<"F","a","i","l","e","d"," ","t","o"," ","p","a","r","s","e"," ","J","S","O","N"," ","r",
      "e","s","p","o","n","s","e"," ","f","r","o","m"," ","G","e","m","i","n","i",":"," ">>

\* raise RuntimeError(f"Failed to parse JSON response from Gemini: {str(e)}")
ParseError(m) == [type |-> "RuntimeError", message |-> ParsePrefix \o m]

\* The outer `except Exception as e`: the type of the exception it raises for
\* an exception whose str() is message.
Classify(message) ==
    LET error_message == Lower(message)
    IN  IF Contains(error_message, NeedleApiKey) /\
           (Contains(error_message, NeedleInvalid) \/ Contains(error_message, NeedleExpired))
        THEN "ValueError"
        ELSE IF Contains(error_message, NeedleQuota) \/ Contains(error_message, NeedleLimit)
        THEN "ValueError"
        ELSE IF Contains(error_message, NeedleConnect) \/ Contains(error_message, NeedleTimeout)
        THEN "ConnectionError"
        ELSE "RuntimeError"

\* What leaves generate_idea when an exception e was raised inside the outer try.
Reraise(e) == [status |-> -1, raised |-> Classify(e.message), from |-> e.message]

CallGenerateIdea ==
    /\ pc \in {"idle", "done"}
    /\ endpoint' = "generate_idea"
    /\ body' = NoBody
    /\ tickers' = <<>>
    /\ holdings' = <<>>
    /\ idx' = 0
    /\ stats' = EmptyMap
    /\ news' = <<>>
    /\ econ' = <<>>
    /\ acc' = EmptyAcc
    /\ inflight' = {<<"gemini", 1>>}
    /\ calls' = NoCalls
    /\ env' = NoEnv
    /\ response' = NoResponse
    /\ pc' = "generate_call"

\* response = self.model.generate_content(prompt) raises
GenerateContentRaises ==
    /\ endpoint = "generate_idea"
    /\ pc = "generate_call"
    /\ \E m \in ApiErrorMessages :
        /\ env' = [env EXCEPT !.gemini = Append(@, [kind |-> "raised", message |-> m])]
        /\ response' = Reraise([type |-> "Exception", message |-> m])
    /\ inflight' = {}
    /\ pc' = "done"
    /\ UNCHANGED <<endpoint, body, tickers, holdings, idx, stats, news, econ, acc, calls>>

\* return json.loads(text.strip())
GenerateContentReturnsJson ==
    /\ endpoint = "generate_idea"
    /\ pc = "generate_call"
    /\ env' = [env EXCEPT !.gemini = Append(@, [kind |-> "json", message |-> <<>>])]
    /\ response' = [status |-> 200, idea |-> Val]
    /\ inflight' = {}
    /\ pc' = "done"
    /\ UNCHANGED <<endpoint, body, tickers, holdings, idx, stats, news, econ, acc, calls>>

\* json.loads raises JSONDecodeError: the inner except raises the RuntimeError,
\* inside the outer try, whose handler catches it.
GenerateContentReturnsMalformed ==
    /\ endpoint = "generate_idea"
    /\ pc = "generate_call"
    /\ \E m \in JsonErrorMessages :
        /\ env' = [env EXCEPT !.gemini = Append(@, [kind |-> "malformed", message |-> m])]
        /\ response' = Reraise(ParseError(m))
    /\ inflight' = {}
    /\ pc' = "done"
    /\ UNCHANGED <<endpoint, body, tickers, holdings, idx, stats, news, econ, acc, calls>>

\* ------------------------------------------------------------------------
Next ==
    \/ ReceiveTradeInsights
    \/ StatsCallGetStockInfo
    \/ StatsGetStockInfoReturns
    \/ CallSearchNews
    \/ SearchNewsReturns
    \/ GetEconomicCalendar
    \/ CallAskTogether
    \/ AskTogetherReturns
    \/ AskTogetherRaises
    \/ ReceivePortfolioAnalytics
    \/ LoopCallGetStockInfo
    \/ LoopGetStockInfoReturns
    \/ PortfolioReturns
    \/ CallGetStockInfo
    \/ GetStockInfoReturns
    \/ ReceiveBacktest
    \/ ReceiveCompareStrategies
    \/ ReceiveBacktestVsLive
    \/ NarrativeCallAskTogether
    \/ NarrativeAskTogetherReturns
    \/ NarrativeAskTogetherRaises
    \/ CallGenerateIdea
    \/ GenerateContentRaises
    \/ GenerateContentReturnsJson
    \/ GenerateContentReturnsMalformed

Spec == Init /\ [][Next]_vars

\* ------------------------------------------------------------------------
\* Properties.

Range(s) == {s[i] : i \in DOMAIN s}

Log == env.stock

\* Call i of the request is the last one made for its symbol.
LastCallFor(i) == \A j \in (i + 1) .. Len(Log) : Log[j].symbol # Log[i].symbol

AskFailed == env.ask # <<>> /\ env.ask[Len(env.ask)] # "ok"
AskSucceeded == env.ask # <<>> /\ env.ask[Len(env.ask)] = "ok"

\* C1: whenever ask_together has raised in trade_insights, the handler has
\* returned a response with an error marker (status 500, result "Error: ...")
\* whose stats map has exactly the requested tickers as keys and, for each, the
\* StockInfo that get_stock_info returned for it (that of its last call), which
\* is get_stock_info's value for what the upstream did in that call.
C1_SynthesisFailureKeepsStats ==
    (endpoint = "trade_insights" /\ AskFailed) =>
        /\ pc = "done"
        /\ response.status = 500
        /\ response.result[1] = "Error: "
        /\ DOMAIN response.stats = Range(tickers)
        /\ Len(Log) = Len(tickers)
        /\ \A i \in 1 .. Len(tickers) :
              LastCallFor(i) =>
                  /\ response.stats[tickers[i]] = Log[i].ret
                  /\ response.stats[tickers[i]] = GetStockInfo(tickers[i], Log[i].up)

C1_Witness ==
    /\ endpoint = "trade_insights"
    /\ AskFailed
    /\ response.status = 500
    /\ Len(tickers) = 2
    /\ tickers[1] # tickers[2]
    /\ response.stats[tickers[1]].price # None
    /\ response.stats[tickers[2]] = SymbolOnly(tickers[2])

\* C2: every get_stock_info call in which the upstream failed (history fetch,
\* quote fetch or indicator computation) returned to its caller a StockInfo
\* whose symbol is the requested symbol and whose other fields are all absent.
C2_GetStockInfoNeverRaises ==
    /\ Len(Log) = idx
    /\ \A i \in 1 .. Len(Log) :
          Log[i].up.stage # "ok" =>
              /\ Log[i].ret.symbol = Log[i].symbol
              /\ \A f \in StockInfoFields \ {"symbol"} : Log[i].ret[f] = None

C2_Witness ==
    /\ Len(Log) = 2
    /\ Log[1].up.stage = "indicators"
    /\ Log[2].up.stage = "history"
    /\ Log[1].ret = SymbolOnly(Log[1].symbol)
    /\ pc \in {"stats", "loop"}

\* C3: in trade_insights, get_stock_info is called for the tickers in order,
\* none skipped, and a failed call leaves a symbol-only entry for its own
\* ticker only: at every point the entry of each ticker looked up so far is the
\* fully computed StockInfo if its (last) call succeeded and the symbol-only
\* one if it failed, whatever the other calls did, and the response carries
\* these entries once every ticker was looked up.
C3_FailureIsolated ==
    endpoint = "trade_insights" =>
        /\ Len(Log) = idx
        /\ \A i \in 1 .. idx : Log[i].symbol = tickers[i]
        /\ DOMAIN stats = {tickers[i] : i \in 1 .. idx}
        /\ \A i \in 1 .. idx :
              LastCallFor(i) =>
                  stats[tickers[i]] =
                      IF Log[i].up.stage = "ok"
                      THEN ComputeStockInfo(tickers[i], Log[i].up.hist, Log[i].up.info)
                      ELSE SymbolOnly(tickers[i])
        /\ response.status # 0 => (idx = Len(tickers) /\ response.stats = stats)

C3_Witness ==
    /\ endpoint = "trade_insights"
    /\ response.status = 200
    /\ Len(tickers) = 2
    /\ tickers[1] # tickers[2]
    /\ Log[1].up.stage = "ok"
    /\ Log[2].up.stage = "history"
    /\ response.stats[tickers[1]].price = Rat(110, 1)
    /\ response.stats[tickers[1]].rsi = Val
    /\ response.stats[tickers[2]] = SymbolOnly(tickers[2])

\* C4: when the search collaborator raised, search_news returned the empty
\* list and trade_insights went on; and whenever ask_together answered, the
\* handler returned a successful response, whatever the news call did.
C4_NewsFailureTolerated ==
    /\ (env.news # <<>> /\ ~env.news[1].ok) =>
          /\ news = <<>>
          /\ pc \in {"calendar", "ask", "ask_call", "done"}
    /\ (env.news # <<>> /\ env.news[1].ok) => Len(news) = env.news[1].n
    /\ (endpoint = "trade_insights" /\ AskSucceeded) =>
          /\ pc = "done"
          /\ response.status = 200
          /\ response.result = <<"completion">>

C4_Witness ==
    /\ endpoint = "trade_insights"
    /\ env.news # <<>>
    /\ ~env.news[1].ok
    /\ AskSucceeded
    /\ response.status = 200
    /\ Len(Log) > 0
    /\ \A i \in 1 .. Len(Log) : Log[i].up.stage = "ok"

\* C5 (as claimed): a request with invalid input (an insights request whose
\* ticker list is empty, a portfolio request with a negative quantity) makes
\* no market-data, news, calendar or synthesis call.
InvalidInput ==
    \/ endpoint = "trade_insights" /\ body.given /\ body.tickers = <<>>
    \/ endpoint = "portfolio_analytics" /\
          \E i \in DOMAIN holdings : RLt(holdings[i].qty, Zero)

C5_ValidationBeforeUpstream ==
    InvalidInput => (calls = NoCalls /\ inflight = {} /\ response.status # 200)

\* C6: in trade_insights ask_together is called at most once per request, and
\* only after one get_stock_info call per ticker, the search_news call and the
\* calendar lookup have all been made and have returned; a response, successful
\* or not, follows exactly one such call (no retry); the portfolio flow never
\* calls ask_together (nor news nor calendar).
BranchCallsInFlight == {c \in inflight : c[1] \in {"stock", "news"}}

C6_OneSynthesisCallAfterGathering ==
    /\ calls.synth <= 1
    /\ Len(env.ask) <= calls.synth
    /\ (endpoint = "trade_insights" /\ calls.synth = 1) =>
          /\ calls.stock = Len(tickers)
          /\ Len(Log) = Len(tickers)
          /\ calls.news = 1
          /\ Len(env.news) = 1
          /\ calls.calendar = 1
          /\ econ = EconomicCalendar
          /\ BranchCallsInFlight = {}
    /\ (endpoint = "trade_insights" /\ response.status # 0) =>
          (calls.synth = 1 /\ Len(env.ask) = 1 /\ inflight = {})
    /\ endpoint = "portfolio_analytics" =>
          (calls.synth = 0 /\ calls.news = 0 /\ calls.calendar = 0)
    /\ (endpoint = "portfolio_analytics" /\ response.status # 0) =>
          calls.stock = Len(holdings)

C6_Witness ==
    /\ endpoint = "trade_insights"
    /\ AskFailed
    /\ response.status = 500
    /\ calls = [stock |-> 2, news |-> 1, calendar |-> 1, synth |-> 1]

\* C7 (as claimed): the branch calls of a trade_insights request run
\* concurrently, that is, while one branch call is in flight and another
\* branch has not been started, that other branch can start.
BranchesNotStarted ==
    calls.stock < Len(tickers) \/ calls.news = 0 \/ calls.calendar = 0

C7_BranchesOverlap ==
    (endpoint = "trade_insights" /\ BranchCallsInFlight # {} /\ BranchesNotStarted) =>
        ENABLED (StatsCallGetStockInfo \/ CallSearchNews \/ GetEconomicCalendar)

\* What the code does instead: at most one call is in flight at any time.
SequentialCalls == Cardinality(inflight) <= 1

\* ------------------------------------------------------------------------
\* Portfolio analytics: the response against the logged lookups.
PortfolioDone == endpoint = "portfolio_analytics" /\ response.status = 200

Analytics == response.analytics

RECURSIVE SumOver(_, _)
SumOver(S, f) ==
    IF S = {} THEN Zero
    ELSE LET i == CHOOSE j \in S : TRUE IN RAdd(f[i], SumOver(S \ {i}, f))

\* Lookup i resolved a price pair: price and month-ago price are both present
\* and non-zero (a zero quote is treated like an absent one, see C15).
Priced(i) ==
    /\ Log[i].ret.price \notin {None, Zero}
    /\ Log[i].ret.price_month_ago \notin {None, Zero}

\* Lookup i failed to resolve a price.
Unresolved(i) == Log[i].ret.price = None \/ Log[i].ret.price_month_ago = None

PricedCalls == {i \in 1 .. Len(Log) : Priced(i)}

ValueOf == [i \in PricedCalls |-> RMul(Log[i].ret.price, holdings[i].qty)]

ReturnOf ==
    [i \in PricedCalls |->
        RDiv(RSub(Log[i].ret.price, Log[i].ret.price_month_ago), Log[i].ret.price_month_ago)]

VolOf ==
    [i \in PricedCalls |->
        IF Log[i].ret.volatility = None THEN Zero ELSE Log[i].ret.volatility]

\* The items, and their lookups, with those that failed to resolve left out.
RECURSIVE Resolved(_, _)
Resolved(s, k) ==
    IF k > Len(s) THEN <<>>
    ELSE IF Unresolved(k) THEN Resolved(s, k + 1)
    ELSE <<s[k]>> \o Resolved(s, k + 1)

C10_SharpeZeroVolatility ==
    PortfolioDone =>
        /\ Analytics.volatility = Zero => Analytics.sharpe = Zero
        /\ Analytics.volatility # Zero =>
              Analytics.sharpe = RDiv(Analytics.returns, Analytics.volatility)
        /\ (\A i \in PricedCalls : Log[i].ret.volatility \in {None, Zero}) =>
              (Analytics.volatility = Zero /\ Analytics.sharpe = Zero)

C10_Witness ==
    /\ PortfolioDone
    /\ PricedCalls # {}
    /\ \A i \in PricedCalls : Log[i].ret.volatility \in {None, Zero}
    /\ \E i \in PricedCalls : Log[i].ret.volatility = None
    /\ Analytics.returns # Zero
    /\ Analytics.volatility = Zero
    /\ Analytics.sharpe = Zero

\* ------------------------------------------------------------------------
\* Indicators of get_stock_info against the length of the price series.
Absent(info, fields) == \A f \in fields : info[f] = None

IndicatorFields ==
    {"volatility", "rsi", "macd", "boll_upper", "boll_lower", "mfi", "obv", "atr", "alert"}

\* C11: whatever get_stock_info returned for a series of n closes has rsi, mfi
\* and atr absent when n < 14, boll_upper and boll_lower absent when n < 20,
\* macd absent when n < 26, and volatility and obv absent when n < 2; for the
\* empty series every indicator is absent, and the call returned.
C11_InsufficientHistoryAbsent ==
    \A i \in 1 .. Len(Log) :
        LET n    == Log[i].up.hist.n
            info == Log[i].ret
        IN  /\ n < 14 => Absent(info, {"rsi", "mfi", "atr"})
            /\ n < 20 => Absent(info, {"boll_upper", "boll_lower"})
            /\ n < 26 => Absent(info, {"macd"})
            /\ n < 2  => Absent(info, {"volatility", "obv"})
            /\ n = 0  => Absent(info, IndicatorFields)
            /\ info.symbol = Log[i].symbol

C11_Witness ==
    /\ endpoint = "get_stock_info"
    /\ pc = "done"
    /\ Log[1].up.stage = "ok"
    /\ Log[1].up.hist.n = 0
    /\ Absent(response.info, IndicatorFields)
    /\ response.info.price = Rat(110, 1)

\* C14: in whatever get_stock_info returned, alert is set exactly when the
\* volatility is a number strictly greater than 0.05: it is absent when the
\* volatility is absent, NaN, 0, or at most 0.05 (0.05 itself included).
IsNumber(x) == x # None /\ x # NaN

C14_AlertExactlyAboveThreshold ==
    \A i \in 1 .. Len(Log) :
        LET info == Log[i].ret
        IN  /\ info.alert # None <=>
                  (IsNumber(info.volatility) /\ RGt(info.volatility, Rat(5, 100)))
            /\ info.alert \in {None, AlertText}
            /\ Log[i].up.stage = "ok" =>
                  info.volatility =
                      IF Log[i].up.hist.n > 1 THEN Log[i].up.hist.sigma ELSE None

C14_Witness ==
    /\ endpoint = "get_stock_info"
    /\ pc = "done"
    /\ Log[1].up.stage = "ok"
    /\ response.info.volatility = Rat(5, 100)
    /\ response.info.alert = None

\* C15 (as claimed): a holding is included in total_value, the return set and
\* the volatility set exactly when its price and its month-ago price are both
\* present, a present price of 0 (or a quantity of 0) included.
PresentCalls ==
    {i \in 1 .. Len(Log) : Log[i].ret.price # None /\ Log[i].ret.price_month_ago # None}

C15_PresenceDecidesInclusion ==
    PortfolioDone =>
        /\ Len(acc.returns) = Cardinality(PresentCalls)
        /\ Len(acc.vols) = Cardinality(PresentCalls)
        /\ Len(acc.prices) = Cardinality(PresentCalls)

\* What the code does instead: a holding is included exactly when both values
\* are present and non-zero, whatever its quantity.
TruthinessDecidesInclusion ==
    PortfolioDone =>
        /\ Len(acc.returns) = Cardinality(PricedCalls)
        /\ Len(acc.vols) = Cardinality(PricedCalls)
        /\ Len(acc.prices) = Cardinality(PricedCalls)

\* ------------------------------------------------------------------------
\* Failure responses of the handlers that call ask_together.
SynthesisEndpoints == NarrativeEndpoints \cup {"trade_insights"}

ResultField ==
    [ep \in SynthesisEndpoints |->
        IF ep = "trade_insights" THEN "result"
        ELSE IF ep = "backtest" THEN "backtest_result"
        ELSE IF ep = "compare_strategies" THEN "comparison"
        ELSE "discrepancies"]

ErrorKind ==
    [e \in AskOutcomes \ {"ok"} |->
        IF e = "transport" THEN "transport"
        ELSE IF e = "http_401" THEN "auth"
        ELSE IF e = "http_429" THEN "quota"
        ELSE "parse"]

FailedResponse == endpoint \in SynthesisEndpoints /\ AskFailed /\ response.status # 0

\* C12 (as claimed): a synthesis failure in trade_insights, backtest,
\* compare_strategies or backtest_vs_live is returned as a structured error
\* with a dedicated field giving its kind (transport, auth, quota, parse), and
\* not as a message in the normal result field.
C12_StructuredErrors ==
    FailedResponse =>
        /\ "kind" \in DOMAIN response
        /\ response.kind = ErrorKind[env.ask[Len(env.ask)]]
        /\ ResultField[endpoint] \notin DOMAIN response

\* What the code does instead: status 500 and the text "Error: <exception>" in
\* the normal result field, with no field besides (stats apart).
BareMessageErrors ==
    FailedResponse =>
        /\ response.status = 500
        /\ response[ResultField[endpoint]] = <<"Error: ", env.ask[Len(env.ask)]>>
        /\ DOMAIN response \subseteq {"status", "stats", ResultField[endpoint]}

\* C16 (as claimed): when ask_together fails, every narrative flow answers
\* with the context it gathered beside the error; backtest_vs_live answers with
\* backtest_summary and live_summary set to the request's backtest_data and
\* live_data.
C16_FailureSurfacesContext ==
    (endpoint \in NarrativeEndpoints /\ AskFailed) =>
        /\ pc = "done"
        /\ response.status = 500
        /\ endpoint = "backtest_vs_live" =>
              /\ "backtest_summary" \in DOMAIN response
              /\ "live_summary" \in DOMAIN response
              /\ response.backtest_summary = body.backtest_data
              /\ response.live_summary = body.live_data

\* What the code does: every narrative flow answers a failure (status 500), and
\* only the success response of backtest_vs_live carries the two summaries.
NarrativeFailureAnswered ==
    (endpoint \in NarrativeEndpoints /\ AskFailed) =>
        /\ pc = "done"
        /\ response.status = 500
        /\ DOMAIN response = {"status", ResultField[endpoint]}

\* ------------------------------------------------------------------------
\* generate_idea: what reaches the caller.
MalformedAnswered ==
    endpoint = "generate_idea" /\ pc = "done" /\ env.gemini[1].kind = "malformed"

\* C13 (as claimed): a model response that json.loads cannot parse is raised
\* to the caller as the parsing error (RuntimeError), whatever the parser's
\* message, and never as ValueError or ConnectionError.
C13_ParseErrorKeepsItsKind ==
    MalformedAnswered => (response.status = -1 /\ response.raised = "RuntimeError")

\* What the code does instead: the parsing error is classified by its text like
\* any other exception, and a message holding "limit" (as "delimiter" does)
\* leaves as the quota ValueError.
ParseErrorClassifiedByText ==
    MalformedAnswered =>
        /\ response.status = -1
        /\ response.raised =
              IF Contains(env.gemini[1].message, NeedleLimit) THEN "ValueError"
              ELSE "RuntimeError"

\* ------------------------------------------------------------------------
\* C17: when trade_insights has answered, on the success and on the
\* synthesis-failure path alike, the keys of the returned stats are exactly the
\* distinct tickers of the request, each entry's symbol is its key,
\* get_stock_info was called once per occurrence of a ticker, in order, and the
\* entry of a ticker holds what the last call made for it returned.
C17_StatsKeyedByDistinctTickers ==
    (endpoint = "trade_insights" /\ pc = "done") =>
        /\ response.status \in {200, 500}
        /\ DOMAIN response.stats = Range(tickers)
        /\ \A k \in DOMAIN response.stats : response.stats[k].symbol = k
        /\ calls.stock = Len(tickers)
        /\ Len(Log) = Len(tickers)
        /\ \A i \in 1 .. Len(Log) :
              /\ Log[i].symbol = tickers[i]
              /\ LastCallFor(i) => response.stats[tickers[i]] = Log[i].ret

\* A ticker listed twice, its two calls returning different results, and the
\* synthesis failing: one entry, holding the second result.
C17_Witness ==
    /\ endpoint = "trade_insights"
    /\ pc = "done"
    /\ AskFailed
    /\ Len(tickers) = 2
    /\ tickers[1] = tickers[2]
    /\ Len(Log) = 2
    /\ Log[1].ret # Log[2].ret
    /\ DOMAIN response.stats = {tickers[1]}
    /\ response.stats[tickers[1]] = Log[2].ret

=============================================================================
